---------------------------- MODULE Spec2Model ----------------------------
(***************************************************************************)
(* A model of the two differential-analysis entry points of the           *)
(* repository, DEA/fcsigB.py and DEA/mzscore.py, as one sequential state   *)
(* machine per run: command-line check, (re)population of the score        *)
(* tables, classification query, output file life cycle.                   *)
(*                                                                         *)
(* Numbers are fixed-point integers with five decimals (2.5 is 250000).    *)
(* SQL NULL / Python None is the value NULL.                               *)
(***************************************************************************)
EXTENDS Integers, Sequences, FiniteSets

VARIABLES prog,       \* which script runs: "fcsigB" or "mzscore"
          pc,         \* position of the run in the script
          argv,       \* the command line as given by the user
          args,       \* the checked arguments (after parse_args and the checks)
          db,         \* what the run has seen of the SQLite database
          rows,       \* result rows of sql_sel_pgrps not yet written
          outfile,    \* the file at the output path: whether it exists, its lines
          n_pgrps,    \* counter of rows written
          stdout,     \* status lines printed
          exit_code   \* exit status of the process, Running before it ends

vars == <<prog, pc, argv, args, db, rows, outfile, n_pgrps, stdout, exit_code>>

-----------------------------------------------------------------------------
(* Values *)

U == 10^5                     \* fixed-point one
NULL == -999999999            \* SQL NULL, Python None
Running == 0 - 1              \* no exit status yet
NoArg == 0 - 2                \* an option left out of the command line
NoFile == [exists |-> FALSE, lines |-> <<>>]   \* nothing exists at the output path

IsNull(x) == x = NULL
NullGene == "NULL"            \* a NULL gene cell of V_PROTEIN
IsNullGene(x) == x = NullGene

\* SQL three-valued comparisons used in a WHERE clause: a comparison with NULL
\* is not true.
Gt(x, y) == ~IsNull(x) /\ ~IsNull(y) /\ x > y
Lt(x, y) == ~IsNull(x) /\ ~IsNull(y) /\ x < y
Ge(x, y) == ~IsNull(x) /\ ~IsNull(y) /\ x >= y
Le(x, y) == ~IsNull(x) /\ ~IsNull(y) /\ x <= y

\* SQLite's multi-argument MAX() and MIN(): NULL as soon as one argument is NULL.
SetMax(S) == CHOOSE x \in S : \A y \in S : y <= x
SetMin(S) == CHOOSE x \in S : \A y \in S : x <= y
SqlMax(S) == IF NULL \in S THEN NULL ELSE SetMax(S)
SqlMin(S) == IF NULL \in S THEN NULL ELSE SetMin(S)

Abs(x) == IF x < 0 THEN 0 - x ELSE x

\* round(x, 4) of Python 2 and ROUND(x, 4) of SQLite: to the nearest multiple
\* of 0.0001, a half going away from zero.
Round4(x) == IF x >= 0 THEN ((x + 5) \div 10) * 10
                       ELSE 0 - (((0 - x) + 5) \div 10) * 10

\* log(value, base) for base 2: math.log raises on None, 0 and negatives, and the
\* UDF then returns None.  The logarithm is tabulated on the ratios of the model.
Log2(value) ==
    IF IsNull(value) \/ value <= 0 THEN NULL
    ELSE CASE value = 25000  -> 0 - 200000
           [] value = 40000  -> 0 - 132193
           [] value = 50000  -> 0 - 100000
           [] value = 100000 -> 0
           [] value = 200000 -> 100000
           [] value = 250000 -> 132193
           [] value = 400000 -> 200000

\* The two reciprocal experiments of a dataset and the SILAC ratio pairs.
Exp1 == "L0_M0_H1"
Exp2 == "L1_M1_H0"
Exps == {Exp1, Exp2}
Datasets == {"VH10", "U2OS", "IB10"}
BasePairs == {<<"H", "L">>, <<"H", "M">>, <<"M", "L">>}
Rev(p) == <<p[2], p[1]>>
HL == <<"H", "L">>
LH == <<"L", "H">>
HM == <<"H", "M">>
MH == <<"M", "H">>
ML == <<"M", "L">>
LM == <<"L", "M">>


-----------------------------------------------------------------------------
(* The data source as fcsigB.py reads it: the view VVV_PGROUP_QUANT joined    *)
(* with PROT2GRP and V_PROTEIN.  A group carries its measured normalized      *)
(* ratios (H/L, H/M, M/L per experiment), its significance B columns and the  *)
(* gene cells of its joined protein rows.                                     *)

\* The inverse-direction ratio column of the view: the reciprocal.
Recip(v) == IF IsNull(v) \/ v <= 0 THEN NULL ELSE 10^9 \div (v \div 10)

\* Column {dts}_{exp}_norm_ratio_{pair} of VVV_PGROUP_QUANT for group g.
NormRatio(g, e, p) ==
    IF p \in BasePairs THEN g.ratio[<<e, p>>] ELSE Recip(g.ratio[<<e, Rev(p)>>])

\* Column {dts}_{exp}_sig_ratio_{pair} of VVV_PGROUP_QUANT for group g.
SigCols == {<<Exp1, HL>>, <<Exp1, HM>>, <<Exp1, LM>>,
            <<Exp2, LH>>, <<Exp2, MH>>, <<Exp2, LM>>}
SigRatio(g, e, p) == g.sig[<<e, p>>]

\* IFNULL(GROUP_CONCAT(DISTINCT gene), '-'): the non-null gene cells of the
\* joined rows, each once, in order of first appearance; '-' when there is none.
RECURSIVE Distinct(_)
Distinct(s) ==
    IF s = <<>> THEN <<>>
    ELSE LET h == s[Len(s)]
             r == Distinct(SubSeq(s, 1, Len(s) - 1))
         IN  IF IsNullGene(h) \/ (\E i \in 1..Len(r) : r[i] = h) THEN r
             ELSE Append(r, h)
\* Variant: GROUP_CONCAT(gene), without DISTINCT and without IFNULL.
GenesCell_Plain(geneRows) == SelectSeq(geneRows, LAMBDA x : ~IsNullGene(x))

GenesCell(geneRows) ==
    IF Distinct(geneRows) = <<>> THEN <<"-">> ELSE Distinct(geneRows)

-----------------------------------------------------------------------------
(* fcsigB.py: the classification query *)

\* Variant: the first channel compared with >= instead of >.
FcDirectional_AtLeast(g, cutoff) ==
    \/ /\ Ge(NormRatio(g, Exp1, HL), cutoff)
       /\ Gt(NormRatio(g, Exp1, HM), cutoff)
       /\ Gt(NormRatio(g, Exp2, LH), cutoff)
       /\ Gt(NormRatio(g, Exp2, MH), cutoff)
    \/ /\ Gt(NormRatio(g, Exp1, LH), cutoff)
       /\ Gt(NormRatio(g, Exp1, MH), cutoff)
       /\ Gt(NormRatio(g, Exp2, HL), cutoff)
       /\ Gt(NormRatio(g, Exp2, HM), cutoff)

\* The directional test of sql_sel_pgrps (WHERE, the parenthesised OR).
FcDirectional(g, cutoff) ==
    \/ /\ Gt(NormRatio(g, Exp1, HL), cutoff)
       /\ Gt(NormRatio(g, Exp1, HM), cutoff)
       /\ Gt(NormRatio(g, Exp2, LH), cutoff)
       /\ Gt(NormRatio(g, Exp2, MH), cutoff)
    \/ /\ Gt(NormRatio(g, Exp1, LH), cutoff)
       /\ Gt(NormRatio(g, Exp1, MH), cutoff)
       /\ Gt(NormRatio(g, Exp2, HL), cutoff)
       /\ Gt(NormRatio(g, Exp2, HM), cutoff)

\* Variant: the control significance compared with > instead of >=.
sigB_filter_Strict(g, cutoff) ==
    /\ Lt(SigRatio(g, Exp1, HL), cutoff)
    /\ Lt(SigRatio(g, Exp1, HM), cutoff)
    /\ Lt(SigRatio(g, Exp2, LH), cutoff)
    /\ Lt(SigRatio(g, Exp2, MH), cutoff)
    /\ Gt(SigRatio(g, Exp1, LM), cutoff)
    /\ Gt(SigRatio(g, Exp2, LM), cutoff)

sigB_filter(g, cutoff) ==
    /\ Lt(SigRatio(g, Exp1, HL), cutoff)
    /\ Lt(SigRatio(g, Exp1, HM), cutoff)
    /\ Lt(SigRatio(g, Exp2, LH), cutoff)
    /\ Lt(SigRatio(g, Exp2, MH), cutoff)
    /\ Ge(SigRatio(g, Exp1, LM), cutoff)
    /\ Ge(SigRatio(g, Exp2, LM), cutoff)

\* Variant: the largest instead of the smallest of the four treatment maxima.
treat_gt_ctrl_ratio_filter_Max(g) ==
    Gt(SqlMax({SqlMax({NormRatio(g, Exp1, HL), NormRatio(g, Exp1, LH)}),
               SqlMax({NormRatio(g, Exp1, HM), NormRatio(g, Exp1, MH)}),
               SqlMax({NormRatio(g, Exp2, LH), NormRatio(g, Exp2, HL)}),
               SqlMax({NormRatio(g, Exp2, MH), NormRatio(g, Exp2, HM)})}),
       SqlMax({NormRatio(g, Exp1, LM), NormRatio(g, Exp1, ML),
               NormRatio(g, Exp2, LM), NormRatio(g, Exp2, ML)}))

treat_gt_ctrl_ratio_filter(g) ==
    Gt(SqlMin({SqlMax({NormRatio(g, Exp1, HL), NormRatio(g, Exp1, LH)}),
               SqlMax({NormRatio(g, Exp1, HM), NormRatio(g, Exp1, MH)}),
               SqlMax({NormRatio(g, Exp2, LH), NormRatio(g, Exp2, HL)}),
               SqlMax({NormRatio(g, Exp2, MH), NormRatio(g, Exp2, HM)})}),
       SqlMax({NormRatio(g, Exp1, LM), NormRatio(g, Exp1, ML),
               NormRatio(g, Exp2, LM), NormRatio(g, Exp2, ML)}))

\* Variant: the two filters the other way round.
extra_filter_Swapped(sigB_cutoff) ==
    IF sigB_cutoff = U THEN "sigB_filter" ELSE "treat_gt_ctrl_ratio_filter"

\* extra_filter = sigB_filter if sigB_cutoff != 1 else treat_gt_ctrl_ratio_filter
extra_filter(sigB_cutoff) ==
    IF sigB_cutoff # U THEN "sigB_filter" ELSE "treat_gt_ctrl_ratio_filter"

\* The WHERE clause of sql_sel_pgrps for one group; the join with PROT2GRP and
\* V_PROTEIN keeps a group that has at least one joined protein row.
FcWhere(g, a) ==
    /\ g.genes # <<>>
    /\ FcDirectional(g, a.fc_cutoff)
    /\ IF a.extra_filter = "sigB_filter"
       THEN sigB_filter(g, a.sigB_cutoff)
       ELSE treat_gt_ctrl_ratio_filter(g)

\* The SELECT list of sql_sel_pgrps: grp_id, genes, six ratios, their log2, six
\* significance values.
FcColumns == <<"grp_id", "genes",
               "ratio_H1L0", "ratio_L1H0", "ratio_H1M0", "ratio_M1H0", "ratio_L0M0", "ratio_L1M1",
               "log2ratio_H1L0", "log2ratio_L1H0", "log2ratio_H1M0", "log2ratio_M1H0",
               "log2ratio_L0M0", "log2ratio_L1M1",
               "pval_H1L0", "pval_L1H0", "pval_H1M0", "pval_M1H0", "pval_L0M0", "pval_L1M1">>
OutSlots == <<<<Exp1, HL>>, <<Exp2, LH>>, <<Exp1, HM>>, <<Exp2, MH>>, <<Exp1, LM>>, <<Exp2, LM>>>>

FcRow(g) ==
    [grp_id |-> g.grp_id,
     genes  |-> GenesCell(g.genes),
     vals   |-> [i \in 1..18 |->
                   LET s == OutSlots[((i - 1) % 6) + 1]
                   IN  IF i <= 6 THEN NormRatio(g, s[1], s[2])
                       ELSE IF i <= 12 THEN Log2(NormRatio(g, s[1], s[2]))
                       ELSE SigRatio(g, s[1], s[2])]]

\* cur.execute(sql_sel_pgrps) on the groups of the database, GROUP BY grp_id.
RECURSIVE FcSelect(_, _)
FcSelect(groups, a) ==
    IF groups = <<>> THEN <<>>
    ELSE IF FcWhere(Head(groups), a)
         THEN <<FcRow(Head(groups))>> \o FcSelect(Tail(groups), a)
         ELSE FcSelect(Tail(groups), a)

-----------------------------------------------------------------------------
(* Inputs of a fcsigB.py run *)

MaxGroups == 2                \* most groups in a database of several groups

\* -d, -f, -s and the dbfile argument as given on the command line.
FcArgv == [d : {"VH10", "U2OS"},
           f : {NoArg, 50000, 200000},
           s : {NoArg, 5000, 100000, 150000},
           dbfile_ok : BOOLEAN]

\* The datasets whose columns the database holds.
DbDatasets == {"VH10"}

TreatVals == {NULL, 40000, 200000, 250000}
CtrlVals == {NULL, 200000, 250000}
SigVals == {NULL, 1000, 5000}

FcRatios == {r \in [Exps \X BasePairs -> TreatVals] :
                r[<<Exp1, ML>>] \in CtrlVals /\ r[<<Exp2, ML>>] \in CtrlVals}
FcSigs == [SigCols -> SigVals]

\* Ratios of a group up in the treatment (2.5 in the four treatment directions,
\* L/M at 0.5), of its mirror image, and of a group with one channel at 0.5.
RatioUp == [c \in Exps \X BasePairs |->
              IF c[2] = ML THEN 200000 ELSE IF c[1] = Exp1 THEN 250000 ELSE 40000]
RatioMirror == [c \in Exps \X BasePairs |->
              IF c[2] = ML THEN 200000 ELSE IF c[1] = Exp1 THEN 40000 ELSE 250000]
RatioOff == [RatioUp EXCEPT ![<<Exp1, HM>>] = 50000]
SigClean == [c \in SigCols |-> IF c[2] = LM THEN 5000 ELSE 1000]
SigNone == [c \in SigCols |-> NULL]

FcGroup(id, r, sg, gs) == [grp_id |-> id, ratio |-> r, sig |-> sg, genes |-> gs]

\* Databases of one group: every ratio assignment with two fixed significance
\* assignments, and every significance assignment with three fixed ratio ones.
FcSingles ==
    {<<FcGroup(1, r, sg, <<"TP53">>)>> : r \in FcRatios, sg \in {SigClean, SigNone}}
    \cup {<<FcGroup(1, r, sg, <<"TP53">>)>> :
              r \in {RatioUp, RatioMirror, RatioOff}, sg \in FcSigs}

\* Databases of up to MaxGroups groups drawn from a few kinds of group.
FcKinds == {<<RatioUp, SigClean, <<"TP53", "MDM2", "TP53">>>>,
            <<RatioUp, SigNone, <<NullGene>>>>,
            <<RatioOff, SigClean, <<"ATM", "ATM">>>>}
FcSeveral ==
    UNION {{[i \in 1..n |-> FcGroup(i, k[i][1], k[i][2], k[i][3])] :
               k \in [1..n -> FcKinds]} : n \in 0..MaxGroups}

FcDatabases == FcSingles \cup FcSeveral

-----------------------------------------------------------------------------
(* fcsigB.py: the run *)

NoArgs == [dts |-> "", fc_cutoff |-> NULL, sigB_cutoff |-> NULL, extra_filter |-> "",
           cutoff |-> NULL, stype |-> "", new_tabs |-> FALSE]
NoDb == [dsets |-> {}, groups |-> <<>>, exp_names |-> {}, quant |-> <<>>, genes |-> <<>>,
         steps |-> {}, stat |-> {}, mzscore |-> <<>>, has_tables |-> FALSE,
         ratio_types |-> {},
         view |-> {}, has_view |-> FALSE]

HeaderLine(cols) == [kind |-> "header", grp_id |-> 0, genes |-> <<>>, cells |-> cols]
RowLine(id, genes, cells) == [kind |-> "row", grp_id |-> id, genes |-> genes, cells |-> cells]
NumCell(x) == [text |-> "num", v |-> Round4(x)]
NACell == [text |-> "NA", v |-> 0]

\* parse_args and the checks of the user input (lines 56-75): parser.error prints
\* the usage and exits with status 2.  The filter of the query is chosen at
\* line 113.
FcParse ==
    /\ prog = "fcsigB" /\ pc = "start"
    /\ LET fc_cutoff == IF argv.f = NoArg THEN 1 * U ELSE argv.f
           sigB_cutoff == IF argv.s = NoArg THEN 1 * U ELSE argv.s
       IN  IF \/ ~argv.dbfile_ok
              \/ fc_cutoff < 1 * U
              \/ sigB_cutoff < 0 \/ sigB_cutoff > 1 * U
           THEN /\ pc' = "exit" /\ exit_code' = 2
                /\ stdout' = Append(stdout, "usage")
                /\ UNCHANGED args
           ELSE /\ pc' = "open"
                /\ args' = [NoArgs EXCEPT !.dts = argv.d, !.fc_cutoff = fc_cutoff,
                                          !.sigB_cutoff = sigB_cutoff,
                                          !.extra_filter = extra_filter(sigB_cutoff)]
                /\ UNCHANGED <<exit_code, stdout>>
    /\ UNCHANGED <<prog, argv, db, rows, outfile, n_pgrps>>

\* open(outfile, 'w') and sqlt.connect(dbfile) (lines 154-159).
FcOpen ==
    /\ prog = "fcsigB" /\ pc = "open"
    /\ outfile' = [exists |-> TRUE, lines |-> <<>>]
    /\ n_pgrps' = 0
    /\ db' = [NoDb EXCEPT !.dsets = DbDatasets]
    /\ pc' = "query"
    /\ UNCHANGED <<prog, argv, args, rows, stdout, exit_code>>

\* cur.execute(sql_sel_pgrps) into the list of rows (line 163), or the handler
\* of sqlt.OperationalError (lines 180-183) when the columns of the dataset do
\* not exist.
FcQuery ==
    /\ prog = "fcsigB" /\ pc = "query"
    /\ IF args.dts \notin db.dsets
       THEN /\ stdout' = Append(stdout, "Error: Selected data set not found")
            /\ outfile' = NoFile
            /\ exit_code' = 1
            /\ pc' = "exit"
            /\ UNCHANGED <<db, rows>>
       ELSE /\ \E groups \in FcDatabases :
                 /\ db' = [db EXCEPT !.groups = groups]
                 /\ rows' = FcSelect(groups, args)
            /\ pc' = "write"
            /\ UNCHANGED <<outfile, exit_code, stdout>>
    /\ UNCHANGED <<prog, argv, args, n_pgrps>>

\* A formatter that writes a number for None.
FcScores_Zero(vals) == [i \in 1..Len(vals) |-> IF IsNull(vals[i]) THEN NumCell(0) ELSE NumCell(vals[i])]

\* The row formatter of fcsigB.py (line 173).
FcScores(vals) == [i \in 1..Len(vals) |-> IF IsNull(vals[i]) THEN NACell ELSE NumCell(vals[i])]

\* One iteration of the loop over the rows (lines 163-176).
FcWriteRow ==
    /\ prog = "fcsigB" /\ pc = "write" /\ rows # <<>>
    /\ LET drow == Head(rows)
           head == IF n_pgrps = 0 THEN <<HeaderLine(FcColumns)>> ELSE <<>>
       IN  outfile' = [outfile EXCEPT !.lines = @ \o head \o
                          <<RowLine(drow.grp_id, drow.genes, FcScores(drow.vals))>>]
    /\ n_pgrps' = n_pgrps + 1
    /\ rows' = Tail(rows)
    /\ UNCHANGED <<prog, pc, argv, args, db, stdout, exit_code>>

\* An end of the run that leaves the empty outfile in place.
FcFinish_KeepsEmpty ==
    /\ prog = "fcsigB" /\ pc = "write" /\ rows = <<>>
    /\ stdout' = Append(stdout, IF Len(outfile.lines) = 0
                                THEN "Nothing to write onto outfile." ELSE "Ndiff")
    /\ exit_code' = 0
    /\ pc' = "exit"
    /\ UNCHANGED <<prog, argv, args, db, rows, outfile, n_pgrps>>

\* After the loop: the files are closed and an empty outfile is removed (lines
\* 178, 185-190).
FcFinish ==
    /\ prog = "fcsigB" /\ pc = "write" /\ rows = <<>>
    /\ IF Len(outfile.lines) = 0
       THEN /\ stdout' = Append(stdout, "Nothing to write onto outfile.")
            /\ outfile' = NoFile
       ELSE /\ stdout' = Append(stdout, "Ndiff")
            /\ UNCHANGED outfile
    /\ exit_code' = 0
    /\ pc' = "exit"
    /\ UNCHANGED <<prog, argv, args, db, rows, n_pgrps>>

-----------------------------------------------------------------------------
(* mzscore.py: the lookups, the UDFs and the aggregate functions *)

Families == {"raw", "norm"}
\* ratio_types: the quant types of PGROUP_QUANT, named <<family, numerator, denominator>>
RatioTypes == {<<f, p[1], p[2]>> : f \in Families, p \in BasePairs}
\* score_types: user input to <<score column, family>>
score_types == [Zr |-> <<"z", "raw">>, Zn |-> <<"z", "norm">>,
                Mr |-> <<"m", "raw">>, Mn |-> <<"m", "norm">>]

\* Division rounding to the nearest, for the fixed-point quotients.
DivR(a, b) ==
    IF b = 0 THEN NULL
    ELSE LET q == (2 * Abs(a) + Abs(b)) \div (2 * Abs(b))
         IN  IF (a < 0) # (b < 0) THEN 0 - q ELSE q

RECURSIVE ISqrtBetween(_, _, _)
ISqrtBetween(n, lo, hi) ==
    IF lo >= hi THEN lo
    ELSE LET mid == (lo + hi + 1) \div 2
         IN  IF mid * mid <= n THEN ISqrtBetween(n, mid, hi)
             ELSE ISqrtBetween(n, lo, mid - 1)
ISqrt(n) == ISqrtBetween(n, 0, 46340)

RECURSIVE SumSeq(_)
SumSeq(xs) == IF xs = <<>> THEN 0 ELSE Head(xs) + SumSeq(Tail(xs))

RECURSIVE Insert(_, _)
Insert(x, xs) ==
    IF xs = <<>> THEN <<x>>
    ELSE IF x <= Head(xs) THEN <<x>> \o xs ELSE <<Head(xs)>> \o Insert(x, Tail(xs))
RECURSIVE Sorted(_)
Sorted(xs) == IF xs = <<>> THEN <<>> ELSE Insert(Head(xs), Sorted(Tail(xs)))

\* The statistics work on log2 values with three decimals.
Milli(x) == DivR(x, 100)

\* AVG(LOG(ratio_value, 2))
Mean(xs) == IF xs = <<>> THEN NULL ELSE DivR(SumSeq(xs), Len(xs))

\* Median.finalize: np.median
Median(xs) ==
    IF xs = <<>> THEN NULL
    ELSE LET srt == Sorted(xs)
             n == Len(xs)
         IN  IF n % 2 = 1 THEN srt[(n + 1) \div 2]
             ELSE DivR(srt[n \div 2] + srt[(n \div 2) + 1], 2)

\* Stdev.finalize: np.array(vec).std(ddof=1); the nan of a single value is stored
\* as NULL.
Stdev(xs) ==
    IF Len(xs) < 2 THEN NULL
    ELSE LET m == Mean(xs)
             sq == [i \in 1..Len(xs) |-> (xs[i] - m) * (xs[i] - m)]
         IN  ISqrt(SumSeq(sq) \div (Len(xs) - 1))

\* Mad.finalize: the median of the absolute deviations from the median
Mad(xs) ==
    IF xs = <<>> THEN NULL
    ELSE LET m == Median(xs)
         IN  Median([i \in 1..Len(xs) |-> Abs(xs[i] - m)])

\* pvalue(score): 2 * st.norm.cdf(-abs(score)), tabulated at |score| = 0, 0.5,
\* 1, 1.5, 2, 2.5, 3 and interpolated; None for a None score.
PTable == <<100000, 61708, 31731, 13361, 4550, 1242, 270>>
pvalue(score) ==
    IF IsNull(score) THEN NULL
    ELSE LET a == Abs(score)
             i == (a \div 50000) + 1
         IN  IF i >= 7 THEN PTable[7]
             ELSE PTable[i] - (((PTable[i] - PTable[i + 1]) * (a % 50000)) \div 50000)

-----------------------------------------------------------------------------
(* mzscore.py: sql_create_tables *)

\* V_PGROUP_RATIO: the rows of PGROUP_QUANT with a quant_type of ratio_types and
\* a quant_value that is true (not NULL, not 0).
V_PGROUP_RATIO(quant) ==
    SelectSeq(quant, LAMBDA q : q.quant_type \in RatioTypes
                                 /\ ~IsNull(q.quant_value) /\ q.quant_value # 0)

Bucket(ratio, e, t) ==
    LET rs == SelectSeq(ratio, LAMBDA q : q.exp_name = e /\ q.quant_type = t)
    IN  [i \in 1..Len(rs) |-> LET l == Log2(rs[i].quant_value)
                               IN  IF IsNull(l) THEN NULL ELSE Milli(l)]

SeqRange(xs) == {xs[i] : i \in 1..Len(xs)}

\* What the aggregates of PGROUP_LOG2RATIO_STAT are handed per (exp_name,
\* ratio_type): COUNT(ratio_value) and the values appended by Stdev.step,
\* Median.step and Mad.step, which are called for a NULL as for a number.
Steps(ratio) ==
    {LET b == Bucket(ratio, k[1], k[2])
     IN  [exp_name |-> k[1], ratio_type |-> k[2], n |-> Len(b), vec |-> b] :
        k \in {<<q.exp_name, q.quant_type>> : q \in SeqRange(ratio)}}

\* np.array(self.vec).std(ddof=1) raises TypeError on a None of vec; SQLite
\* fails the CREATE TABLE statement with sqlt.OperationalError.
FinalizeRaises(ratio) == \E b \in Steps(ratio) : \E i \in 1..Len(b.vec) : IsNull(b.vec[i])

\* PGROUP_LOG2RATIO_STAT: one row per (exp_name, ratio_type) that has rows in
\* V_PGROUP_RATIO.
PGROUP_LOG2RATIO_STAT(ratio) ==
    {LET b == Bucket(ratio, k[1], k[2])
     IN  [exp_name |-> k[1], ratio_type |-> k[2],
          n |-> Len(b), mean |-> Mean(b), median |-> Median(b),
          sd |-> Stdev(b), mad |-> Mad(b)] :
        k \in {<<q.exp_name, q.quant_type>> : q \in SeqRange(ratio)}}

\* (LOG(ratio_value, 2) - mean) / sd: NULL when sd is NULL or 0
ZScore(x, st) ==
    IF IsNull(x) \/ IsNull(st.sd) \/ st.sd = 0 THEN NULL
    ELSE DivR((x - st.mean) * U, st.sd)

\* 0.6745 * (LOG(ratio_value, 2) - median) / mad: NULL when mad is NULL or 0
MScore(x, st) ==
    IF IsNull(x) \/ IsNull(st.mad) \/ st.mad = 0 THEN NULL
    ELSE DivR(67450 * (x - st.median), st.mad)

\* PGROUP_MZSCORE: V_PGROUP_RATIO joined with its statistics.
PGROUP_MZSCORE(ratio, stat) ==
    [i \in 1..Len(ratio) |->
        LET q == ratio[i]
            st == CHOOSE r \in stat : r.exp_name = q.exp_name /\ r.ratio_type = q.quant_type
            x == Milli(Log2(q.quant_value))
        IN  [grp_id |-> q.grp_id, exp_name |-> q.exp_name, ratio_type |-> q.quant_type,
             z_score |-> ZScore(x, st), m_score |-> MScore(x, st)]]

-----------------------------------------------------------------------------
(* mzscore.py: the view V_PGROUP_MZSCORE (lines 290-317) *)

\* rr = r[:-2] + r[-2:][::-1]
InverseType(r) == <<r[1], r[3], r[2]>>

\* The four columns added for experiment e and ratio type r: the name of each
\* and the expression that defines it.
ViewColumn(e, kind, r, name, neg) ==
    [name |-> <<e, kind, name>>, exp |-> e, kind |-> kind, ratio |-> r, neg |-> neg]
ViewColumns(exp_names, ratio_types) ==
    UNION {{ViewColumn(e, "z", r, r, FALSE), ViewColumn(e, "z", r, InverseType(r), TRUE),
            ViewColumn(e, "m", r, r, FALSE), ViewColumn(e, "m", r, InverseType(r), TRUE)} :
              e \in exp_names, r \in ratio_types}

\* A view whose inverse columns lack the factor -1.
ViewValue_NoNegate(mzscore, id, col) ==
    LET rs == SelectSeq(mzscore, LAMBDA x : x.grp_id = id /\ x.exp_name = col.exp
                                            /\ x.ratio_type = col.ratio)
        sc == [i \in 1..Len(rs) |-> IF col.kind = "z" THEN rs[i].z_score ELSE rs[i].m_score]
        nn == SelectSeq(sc, LAMBDA v : ~IsNull(v))
    IN  IF nn = <<>> THEN NULL ELSE Round4(nn[1])

\* ROUND(CAST(GROUP_CONCAT(CASE WHEN exp_name = e AND ratio_type = r THEN [-1 *]
\* score ELSE NULL END) AS NUMERIC), 4) over the rows of group id.
ViewValue(mzscore, id, col) ==
    LET rs == SelectSeq(mzscore, LAMBDA x : x.grp_id = id /\ x.exp_name = col.exp
                                            /\ x.ratio_type = col.ratio)
        sc == [i \in 1..Len(rs) |->
                 LET v == IF col.kind = "z" THEN rs[i].z_score ELSE rs[i].m_score
                 IN  IF IsNull(v) THEN NULL ELSE IF col.neg THEN (0 - 1) * v ELSE v]
        nn == SelectSeq(sc, LAMBDA v : ~IsNull(v))
    IN  IF nn = <<>> THEN NULL ELSE Round4(nn[1])

\* What the option -n leaves in the database.  When a finalize method raises,
\* the script stops at CREATE TABLE PGROUP_LOG2RATIO_STAT, after the DROP of
\* that table.
Populate(d) ==
    LET ratio == V_PGROUP_RATIO(d.quant)
        stat == PGROUP_LOG2RATIO_STAT(ratio)
        ratio_types == {r.ratio_type : r \in stat}
    IN  IF FinalizeRaises(ratio)
        THEN [d EXCEPT !.steps = Steps(ratio), !.stat = {}, !.mzscore = <<>>,
                       !.has_tables = FALSE, !.ratio_types = {}, !.view = {},
                       !.has_view = FALSE]
        ELSE
        [d EXCEPT !.steps = Steps(ratio),
                  !.stat = stat,
                  !.mzscore = PGROUP_MZSCORE(ratio, stat),
                  !.has_tables = TRUE,
                  !.ratio_types = ratio_types,
                  !.view = ViewColumns(d.exp_names, ratio_types),
                  !.has_view = d.exp_names # {} /\ ratio_types # {}]

-----------------------------------------------------------------------------
(* mzscore.py: the classification query *)

ExpName(dts, e) == <<dts, e>>
\* {dts}_{exp}_{score_type}_{pair}, e.g. VH10_L0_M0_H1_z_score_raw_ratio_HL
ColName(dts, e, st, p) == <<ExpName(dts, e), st[1], <<st[2], p[1], p[2]>>>>

AllPairs == {HL, LH, HM, MH, ML, LM}
MzNeeded(dts, st) == {ColName(dts, e, st, p) : e \in Exps, p \in AllPairs}

\* The value of column name for group id in V_PGROUP_MZSCORE.
Chan(d, id, name) ==
    ViewValue(d.mzscore, id, CHOOSE c \in d.view : c.name = name)

\* sqlt.OperationalError: the view or one of the columns named by the query
\* does not exist.
MzQueryFails(d, a) ==
    \/ ~d.has_view
    \/ \E name \in MzNeeded(a.dts, score_types[a.stype]) :
          name \notin {c.name : c \in d.view}

MzDirectional(d, id, a) ==
    LET S(e, p) == Chan(d, id, ColName(a.dts, e, score_types[a.stype], p))
    IN  \/ /\ Gt(S(Exp1, HL), a.cutoff)
           /\ Gt(S(Exp1, HM), a.cutoff)
           /\ Gt(S(Exp2, LH), a.cutoff)
           /\ Gt(S(Exp2, MH), a.cutoff)
        \/ /\ Gt(S(Exp1, LH), a.cutoff)
           /\ Gt(S(Exp1, MH), a.cutoff)
           /\ Gt(S(Exp2, HL), a.cutoff)
           /\ Gt(S(Exp2, HM), a.cutoff)

MzControl(d, id, a) ==
    LET S(e, p) == Chan(d, id, ColName(a.dts, e, score_types[a.stype], p))
    IN  /\ Le(S(Exp1, ML), a.cutoff)
        /\ Le(S(Exp1, LM), a.cutoff)
        /\ Le(S(Exp2, ML), a.cutoff)
        /\ Le(S(Exp2, LM), a.cutoff)

GenesOf(d, id) ==
    LET rs == SelectSeq(d.genes, LAMBDA x : x.grp_id = id)
    IN  [i \in 1..Len(rs) |-> rs[i].gene]

MzWhere(d, id, a) ==
    /\ GenesOf(d, id) # <<>>
    /\ MzDirectional(d, id, a)
    /\ MzControl(d, id, a)

MzColumns(stype) ==
    <<<<"grp_id">>, <<"genes">>,
      <<stype, "H1L0">>, <<stype, "L1H0">>, <<stype, "H1M0">>, <<stype, "M1H0">>,
      <<stype, "L0M0">>, <<stype, "L1M1">>,
      <<"pval", "H1L0">>, <<"pval", "L1H0">>, <<"pval", "H1M0">>, <<"pval", "M1H0">>,
      <<"pval", "L0M0">>, <<"pval", "L1M1">>>>

MzRow(d, id, a) ==
    [grp_id |-> id,
     genes  |-> GenesCell(GenesOf(d, id)),
     vals   |-> [i \in 1..12 |->
                   LET s == OutSlots[((i - 1) % 6) + 1]
                       v == Chan(d, id, ColName(a.dts, s[1], score_types[a.stype], s[2]))
                   IN  IF i <= 6 THEN v ELSE pvalue(v)]]

RECURSIVE SortedIds(_)
SortedIds(S) ==
    IF S = {} THEN <<>> ELSE <<SetMin(S)>> \o SortedIds(S \ {SetMin(S)})

\* The groups of V_PGROUP_MZSCORE: GROUP BY grp_id over PGROUP_MZSCORE.
ViewIds(d) == SortedIds({x.grp_id : x \in SeqRange(d.mzscore)})

RECURSIVE MzSelectIds(_, _, _)
MzSelectIds(d, ids, a) ==
    IF ids = <<>> THEN <<>>
    ELSE IF MzWhere(d, Head(ids), a)
         THEN <<MzRow(d, Head(ids), a)>> \o MzSelectIds(d, Tail(ids), a)
         ELSE MzSelectIds(d, Tail(ids), a)
MzSelect(d, a) == MzSelectIds(d, ViewIds(d), a)

-----------------------------------------------------------------------------
(* Inputs of a mzscore.py run *)

MzArgv == [n : BOOLEAN,
           d : {"VH10", "U2OS"},
           s : {"Zr", "Zn", "Mr", "Mn"},
           c : {0 - 100000, 0, 50000, 75000},
           dbfile_ok : BOOLEAN]

Absent == 0 - 3               \* no row in PGROUP_QUANT
ExpSeq == <<Exp1, Exp2>>
TypeSeq == <<<<"raw", "H", "L">>, <<"raw", "H", "M">>, <<"raw", "M", "L">>,
             <<"norm", "H", "L">>, <<"norm", "H", "M">>, <<"norm", "M", "L">>>>
KeySeq == [i \in 1..12 |-> <<ExpSeq[((i - 1) \div 6) + 1], TypeSeq[((i - 1) % 6) + 1]>>]

RECURSIVE Flatten(_)
Flatten(ss) == IF ss = <<>> THEN <<>> ELSE Head(ss) \o Flatten(Tail(ss))

\* The rows of PGROUP_QUANT of one group: its measurement m[<<exp, pair>>] is
\* stored for each family of fams, for the pairs of mask.
QuantOf(dts, id, m, fams, mask) ==
    LET ks == SelectSeq(KeySeq, LAMBDA k : /\ k[2][1] \in fams
                                           /\ <<k[2][2], k[2][3]>> \in mask
                                           /\ m[<<k[1], <<k[2][2], k[2][3]>>>>] # Absent)
    IN  [i \in 1..Len(ks) |->
            [grp_id |-> id, exp_name |-> ExpName(dts, ks[i][1]), quant_type |-> ks[i][2],
             quant_value |-> m[<<ks[i][1], <<ks[i][2][2], ks[i][2][3]>>>>]]]

\* The background population: two groups with ratios 0.5 and 2 everywhere.
Flat(v) == [c \in Exps \X BasePairs |-> v]
BgIds == <<8, 9>>
Background(dts, fams, mask) ==
    QuantOf(dts, BgIds[1], Flat(50000), fams, mask)
    \o QuantOf(dts, BgIds[2], Flat(200000), fams, mask)

MzContent(dts, ms, gs, fams, mask) ==
    [NoDb EXCEPT
       !.dsets = {dts},
       !.exp_names = {ExpName(dts, e) : e \in Exps},
       !.quant = Flatten([i \in 1..Len(ms) |-> QuantOf(dts, i, ms[i], fams, mask)])
                 \o Background(dts, fams, mask),
       !.genes = Flatten([i \in 1..Len(ms) |-> [j \in 1..Len(gs[i]) |->
                                                   [grp_id |-> i, gene |-> gs[i][j]]]])
                 \o <<[grp_id |-> BgIds[1], gene |-> "ACTB"],
                      [grp_id |-> BgIds[2], gene |-> "GAPDH"]>>]

MzTreatVals == {Absent, 25000, 400000}
MzCtrlVals == {Absent, 100000, 400000}
MzMeas == {m \in [Exps \X BasePairs -> MzTreatVals] :
              m[<<Exp1, ML>>] \in MzCtrlVals /\ m[<<Exp2, ML>>] \in MzCtrlVals}

\* Databases with one group of interest: every assignment of its measurements,
\* stored as normalized ratios.
MzSingles ==
    {MzContent("VH10", <<m>>, <<<<"TP53">>>>, {"norm"}, BasePairs) : m \in MzMeas}

\* A group up in the treatment, one with a channel stored as 0, one stored as
\* NULL and one stored as a negative number.
MeasUp == [c \in Exps \X BasePairs |->
             IF c[2] = ML THEN 100000 ELSE IF c[1] = Exp1 THEN 400000 ELSE 25000]
MeasZero == [MeasUp EXCEPT ![<<Exp1, HM>>] = 0]
MeasNull == [MeasUp EXCEPT ![<<Exp2, ML>>] = NULL]
MeasNeg == [MeasUp EXCEPT ![<<Exp1, HL>>] = 0 - 200000]
MzKinds == {<<MeasUp, <<"TP53", "MDM2", "TP53">>>>, <<MeasUp, <<NullGene, NullGene>>>>,
            <<MeasZero, <<"ATM", "ATM">>>>, <<MeasNull, <<NullGene>>>>,
            <<MeasNeg, <<"TP53", "MDM2">>>>}

\* Databases of up to MaxGroups groups of interest, with data for both families
\* or the normalized one only, and for all ratio pairs, for H/L and H/M only,
\* or for none.
MzSeveral ==
    UNION {{MzContent("VH10", [i \in 1..n |-> k[i][1]], [i \in 1..n |-> k[i][2]], fams, mask) :
               k \in [1..n -> MzKinds],
               fams \in {Families, {"norm"}},
               mask \in {BasePairs, {HL, HM}, {}}} : n \in 1..MaxGroups}

-----------------------------------------------------------------------------
(* mzscore.py: the run *)

\* parse_args and the checks of the user input (lines 84-108).
MzParse ==
    /\ prog = "mzscore" /\ pc = "start"
    /\ IF \/ ~argv.dbfile_ok
          \/ ~(argv.s # "" /\ argv.c # 0)
          \/ argv.c < 0
       THEN /\ pc' = "exit" /\ exit_code' = 2
            /\ stdout' = Append(stdout, "usage")
            /\ UNCHANGED args
       ELSE /\ pc' = "connect"
            /\ args' = [NoArgs EXCEPT !.dts = argv.d, !.stype = argv.s,
                                      !.cutoff = argv.c, !.new_tabs = argv.n]
            /\ UNCHANGED <<exit_code, stdout>>
    /\ UNCHANGED <<prog, argv, db, rows, outfile, n_pgrps>>

\* sqlt.connect(args.dbfile) (lines 280-288): the database as an earlier run
\* with -n left it (prior), or as it came from the PIQMIe service.
MzConnect ==
    /\ prog = "mzscore" /\ pc = "connect"
    /\ \/ \E c \in MzSeveral, prior \in BOOLEAN :
             db' = IF prior THEN Populate(c) ELSE c
       \/ /\ args.new_tabs /\ args.dts \in DbDatasets
          /\ \E c \in MzSingles : db' = c
    /\ pc' = IF args.new_tabs THEN "build" ELSE "open"
    /\ UNCHANGED <<prog, argv, args, rows, outfile, n_pgrps, stdout, exit_code>>

\* The block under "if new_tabs is True" (lines 290-317).  With no experiment
\* or no ratio type the CREATE VIEW statement has no column after "grp_id," and
\* executescript raises sqlt.OperationalError, which nothing catches; likewise
\* when an aggregate of sql_create_tables raises.
MzBuild ==
    /\ prog = "mzscore" /\ pc = "build"
    /\ db' = Populate(db)
    /\ IF db'.has_view
       THEN /\ pc' = "open"
            /\ UNCHANGED <<stdout, exit_code>>
       ELSE /\ pc' = "exit" /\ exit_code' = 1
            /\ stdout' = Append(stdout, "Traceback: OperationalError")
    /\ UNCHANGED <<prog, argv, args, rows, outfile, n_pgrps>>

\* open(outfile, 'w+') (lines 320-323).
MzOpen ==
    /\ prog = "mzscore" /\ pc = "open"
    /\ outfile' = [exists |-> TRUE, lines |-> <<>>]
    /\ n_pgrps' = 0
    /\ pc' = "query"
    /\ UNCHANGED <<prog, argv, args, db, rows, stdout, exit_code>>

\* cur.execute(sql_sel_pgrps) into the list of rows (line 325), or the handler
\* of sqlt.OperationalError (lines 340-342).
MzQuery ==
    /\ prog = "mzscore" /\ pc = "query"
    /\ IF MzQueryFails(db, args)
       THEN /\ stdout' = Append(stdout, "Error: Selected data set not found")
            /\ exit_code' = 1
            /\ pc' = "exit"
            /\ UNCHANGED rows
       ELSE /\ rows' = MzSelect(db, args)
            /\ pc' = "write"
            /\ UNCHANGED <<exit_code, stdout>>
    /\ UNCHANGED <<prog, argv, args, db, outfile, n_pgrps>>

\* The row formatter of mzscore.py (line 335): float(None) raises TypeError.
MzFormatRaises(vals) == \E i \in 1..Len(vals) : IsNull(vals[i])
MzScores(vals) == [i \in 1..Len(vals) |-> NumCell(vals[i])]

\* One iteration of the loop over the rows (lines 325-338).
MzWriteRow ==
    /\ prog = "mzscore" /\ pc = "write" /\ rows # <<>>
    /\ LET drow == Head(rows)
           head == IF n_pgrps = 0 THEN <<HeaderLine(MzColumns(args.stype))>> ELSE <<>>
       IN  IF MzFormatRaises(drow.vals)
           THEN /\ outfile' = [outfile EXCEPT !.lines = @ \o head]
                /\ stdout' = Append(stdout, "Traceback: TypeError")
                /\ exit_code' = 1
                /\ pc' = "exit"
                /\ UNCHANGED <<rows, n_pgrps>>
           ELSE /\ outfile' = [outfile EXCEPT !.lines = @ \o head \o
                               <<RowLine(drow.grp_id, drow.genes, MzScores(drow.vals))>>]
                /\ n_pgrps' = n_pgrps + 1
                /\ rows' = Tail(rows)
                /\ UNCHANGED <<pc, stdout, exit_code>>
    /\ UNCHANGED <<prog, argv, args, db>>

\* After the loop: an empty outfile is removed (lines 344-349).
MzFinish ==
    /\ prog = "mzscore" /\ pc = "write" /\ rows = <<>>
    /\ IF Len(outfile.lines) = 0
       THEN /\ stdout' = Append(stdout, "Nothing to write onto outfile.")
            /\ outfile' = NoFile
       ELSE /\ stdout' = Append(stdout, "Ndiff")
            /\ UNCHANGED outfile
    /\ exit_code' = 0
    /\ pc' = "exit"
    /\ UNCHANGED <<prog, argv, args, db, rows, n_pgrps>>

InitMz ==
    /\ prog = "mzscore" /\ pc = "start"
    /\ argv \in MzArgv
    /\ args = NoArgs /\ db = NoDb /\ rows = <<>> /\ outfile = NoFile
    /\ n_pgrps = 0 /\ stdout = <<>> /\ exit_code = Running

NextMz == MzParse \/ MzConnect \/ MzBuild \/ MzOpen \/ MzQuery \/ MzWriteRow \/ MzFinish

SpecMz == InitMz /\ [][NextMz]_vars

-----------------------------------------------------------------------------
InitFc ==
    /\ prog = "fcsigB" /\ pc = "start"
    /\ argv \in FcArgv
    /\ args = NoArgs /\ db = NoDb /\ rows = <<>> /\ outfile = NoFile
    /\ n_pgrps = 0 /\ stdout = <<>> /\ exit_code = Running

NextFc == FcParse \/ FcOpen \/ FcQuery \/ FcWriteRow \/ FcFinish

SpecFc == InitFc /\ [][NextFc]_vars

Init == InitFc \/ InitMz

Next == NextFc \/ NextMz

Spec == Init /\ [][Next]_vars

-----------------------------------------------------------------------------
(* Properties *)

LastOut == IF stdout = <<>> THEN "" ELSE stdout[Len(stdout)]

\* The group ids of the result lines written to the output file.
EmittedIds ==
    {outfile.lines[i].grp_id : i \in {j \in 1..Len(outfile.lines) : outfile.lines[j].kind = "row"}}

FcGroupOf(id) == CHOOSE g \in SeqRange(db.groups) : g.grp_id = id

\* The channel exp(pair) of a group as the classifier of the running script
\* reads it, and the cutoff of the run.
ChanVal(id, e, p) ==
    IF prog = "fcsigB" THEN NormRatio(FcGroupOf(id), e, p)
    ELSE Chan(db, id, ColName(args.dts, e, score_types[args.stype], p))
CutoffOf == IF prog = "fcsigB" THEN args.fc_cutoff ELSE args.cutoff
Above(x) == x # NULL /\ x > CutoffOf

FirstSet(id) ==
    /\ Above(ChanVal(id, Exp1, HL)) /\ Above(ChanVal(id, Exp1, HM))
    /\ Above(ChanVal(id, Exp2, LH)) /\ Above(ChanVal(id, Exp2, MH))
MirrorSet(id) ==
    /\ Above(ChanVal(id, Exp1, LH)) /\ Above(ChanVal(id, Exp1, MH))
    /\ Above(ChanVal(id, Exp2, HL)) /\ Above(ChanVal(id, Exp2, HM))

\* C1: in both scripts a group is written only if exp1(H/L), exp1(H/M),
\* exp2(L/H), exp2(M/H) are all strictly above the cutoff, or the mirrored
\* exp1(L/H), exp1(M/H), exp2(H/L), exp2(H/M) all are.
C1_DirectionalNecessary == \A id \in EmittedIds : FirstSet(id) \/ MirrorSet(id)

\* A fold-change run that wrote a group passing by the mirrored set only.
C1_MirrorEmitted ==
    prog = "fcsigB" /\ \E id \in EmittedIds : MirrorSet(id) /\ ~FirstSet(id)

\* A finished fold-change run in magnitude-comparison / significance-test mode.
FcDone == prog = "fcsigB" /\ pc = "exit" /\ exit_code = 0
MagnitudeRun == FcDone /\ args.extra_filter = "treat_gt_ctrl_ratio_filter"
SigRun == FcDone /\ args.extra_filter = "sigB_filter"

Treat4(g) == {NormRatio(g, Exp1, HL), NormRatio(g, Exp1, HM),
              NormRatio(g, Exp2, LH), NormRatio(g, Exp2, MH)}
TreatInv4(g) == {NormRatio(g, Exp1, LH), NormRatio(g, Exp1, MH),
                 NormRatio(g, Exp2, HL), NormRatio(g, Exp2, HM)}
Ctrl4(g) == {NormRatio(g, Exp1, LM), NormRatio(g, Exp1, ML),
             NormRatio(g, Exp2, LM), NormRatio(g, Exp2, ML)}
Larger(x, y) == IF x > y THEN x ELSE y
TreatEitherWay(g) ==
    {Larger(NormRatio(g, Exp1, HL), NormRatio(g, Exp1, LH)),
     Larger(NormRatio(g, Exp1, HM), NormRatio(g, Exp1, MH)),
     Larger(NormRatio(g, Exp2, LH), NormRatio(g, Exp2, HL)),
     Larger(NormRatio(g, Exp2, MH), NormRatio(g, Exp2, HM))}
PassesDirectional(g) == FirstSet(g.grp_id) \/ MirrorSet(g.grp_id)
Candidates == {g \in SeqRange(db.groups) : g.genes # <<>> /\ PassesDirectional(g)}

\* C2 as stated: in magnitude-comparison mode a group that passes the
\* directional test is written iff the largest of its four treatment-direction
\* ratios is strictly greater than the largest of its control-direction ratios
\* (read here on the groups with none of these ratios null).
C2_MaxOfTreatment ==
    MagnitudeRun =>
        \A g \in Candidates :
            NULL \notin (Treat4(g) \cup Ctrl4(g)) =>
                (g.grp_id \in EmittedIds <=> SetMax(Treat4(g)) > SetMax(Ctrl4(g)))

\* C2 amended: in magnitude-comparison mode a group that passes the directional
\* test is written iff none of its treatment and control ratios is null and the
\* smallest of its four treatment channels, each taken as the larger of the
\* ratio and its inverse, is strictly greater than the largest of its
\* control-direction ratios (L/M and M/L of both experiments).
C2_MinOfTreatment ==
    MagnitudeRun =>
        \A g \in Candidates :
            g.grp_id \in EmittedIds <=>
                /\ NULL \notin (Treat4(g) \cup TreatInv4(g) \cup Ctrl4(g))
                /\ SetMin(TreatEitherWay(g)) > SetMax(Ctrl4(g))

\* The example of the claim: treatment channels all 2.5, L/M 0.5, cutoff 1,
\* written in magnitude-comparison mode.
C2_ExampleEmitted ==
    /\ MagnitudeRun /\ args.fc_cutoff = 1 * U
    /\ \E g \in Candidates :
          /\ g.grp_id \in EmittedIds
          /\ Treat4(g) = {250000}
          /\ NormRatio(g, Exp1, LM) = 50000 /\ NormRatio(g, Exp2, LM) = 50000

TreatSig(g) == {SigRatio(g, Exp1, HL), SigRatio(g, Exp1, HM),
                SigRatio(g, Exp2, LH), SigRatio(g, Exp2, MH)}
CtrlSig(g) == {SigRatio(g, Exp1, LM), SigRatio(g, Exp2, LM)}
AllBelow(S, c) == \A x \in S : x # NULL /\ x < c
AllAtLeast(S, c) == \A x \in S : x # NULL /\ x >= c

\* C3 as stated: in significance-test mode a group that passes the directional
\* test is written iff its control significance values are all below the
\* significance cutoff and its treatment-side ones all at or above it.
C3_ControlBelow ==
    SigRun =>
        \A g \in Candidates :
            g.grp_id \in EmittedIds <=>
                AllBelow(CtrlSig(g), args.sigB_cutoff) /\ AllAtLeast(TreatSig(g), args.sigB_cutoff)

\* C3 amended: in significance-test mode a group that passes the directional
\* test is written iff its four treatment-side significance values (exp1 H/L,
\* exp1 H/M, exp2 L/H, exp2 M/H) are all strictly below the significance cutoff
\* and its two control ones (L/M of both experiments) are at or above it.
C3_TreatmentBelow ==
    SigRun =>
        \A g \in Candidates :
            g.grp_id \in EmittedIds <=>
                AllBelow(TreatSig(g), args.sigB_cutoff) /\ AllAtLeast(CtrlSig(g), args.sigB_cutoff)

\* A significance-test run that wrote one group with a control value equal to
\* the cutoff.
C3_SigEmitted ==
    SigRun /\ \E g \in Candidates :
                 g.grp_id \in EmittedIds /\ SigRatio(g, Exp1, LM) = args.sigB_cutoff

FcParsed == prog = "fcsigB" /\ args.extra_filter # ""
MagnitudeRule(g) ==
    /\ NULL \notin (Treat4(g) \cup TreatInv4(g) \cup Ctrl4(g))
    /\ SetMin(TreatEitherWay(g)) > SetMax(Ctrl4(g))
SigRule(g) ==
    AllBelow(TreatSig(g), args.sigB_cutoff) /\ AllAtLeast(CtrlSig(g), args.sigB_cutoff)

\* C4 as stated: the significance test is the sub-rule of a run exactly when
\* the user supplied a significance cutoff, whatever its value.
C4_ByPresence ==
    FcParsed => (args.extra_filter = "sigB_filter" <=> argv.s # NoArg)

\* C4 amended: exactly one sub-rule is applied in a run, and the value of the
\* significance cutoff selects it: the significance test when the cutoff
\* differs from 1, the magnitude comparison when it is 1, be it the default or
\* a 1.0 given by the user.
C4_ByValue ==
    /\ FcParsed =>
          /\ args.extra_filter \in {"sigB_filter", "treat_gt_ctrl_ratio_filter"}
          /\ args.extra_filter = "sigB_filter" <=> (argv.s # NoArg /\ argv.s # 1 * U)
    /\ FcDone =>
          \A g \in Candidates :
             g.grp_id \in EmittedIds <=>
                IF argv.s # NoArg /\ argv.s # 1 * U THEN SigRule(g) ELSE MagnitudeRule(g)

\* A run given -s 1.0 that applied the magnitude comparison: it wrote a group
\* that fails the significance test at 1.0.
C4_ExplicitOne ==
    /\ FcDone /\ argv.s = 1 * U
    /\ \E g \in Candidates : g.grp_id \in EmittedIds /\ ~SigRule(g)
\* The run ended in the handler of sqlt.OperationalError of the query.
QueryFailed == pc = "exit" /\ LastOut = "Error: Selected data set not found"

\* C5: in both scripts, when the classification query fails because the columns
\* of the dataset or score family do not exist, the run ends with a non-zero
\* exit status, no result row was written and no output file exists.
C5_FailedQueryLeavesNothing ==
    QueryFailed =>
        /\ exit_code \notin {0, Running}
        /\ EmittedIds = {}
        /\ ~outfile.exists

\* The run ended after a query that could be executed.
QuerySucceeded ==
    /\ pc = "exit" /\ args # NoArgs
    /\ IF prog = "fcsigB" THEN args.dts \in db.dsets ELSE ~MzQueryFails(db, args)

\* The groups of the database that satisfy the WHERE clause of the run.
Qualifying ==
    IF prog = "fcsigB"
    THEN {g.grp_id : g \in {h \in SeqRange(db.groups) : FcWhere(h, args)}}
    ELSE {id \in SeqRange(ViewIds(db)) : MzWhere(db, id, args)}

\* C6: in both scripts, a run whose query succeeds ends with exit status 0;
\* with no qualifying group it reports "Nothing to write onto outfile." and no
\* output file exists; with at least one the file exists, its first line is the
\* header and one line per qualifying group follows.
C6_ArtifactIffQualifying ==
    QuerySucceeded =>
        /\ exit_code = 0
        /\ IF Qualifying = {}
           THEN LastOut = "Nothing to write onto outfile." /\ ~outfile.exists
           ELSE /\ outfile.exists
                /\ Len(outfile.lines) = 1 + Cardinality(Qualifying)
                /\ outfile.lines[1].kind = "header"
                /\ \A i \in 2..Len(outfile.lines) : outfile.lines[i].kind = "row"
                /\ {outfile.lines[i].grp_id : i \in 2..Len(outfile.lines)} = Qualifying

\* A Z/M-score run over a view with groups of which none qualifies.
C6_NothingToWrite ==
    /\ prog = "mzscore" /\ QuerySucceeded
    /\ ViewIds(db) # <<>> /\ Qualifying = {}
    /\ LastOut = "Nothing to write onto outfile." /\ ~outfile.exists

\* The values the query selects for a written group.
SourceVals(id) ==
    IF prog = "fcsigB" THEN FcRow(FcGroupOf(id)).vals ELSE MzRow(db, id, args).vals

\* C7: in both scripts a null ratio, score or p-value of a row to be written
\* never aborts the run: the formatter never raises, the row is written, a null
\* cell reads "NA" and any other cell is the value rounded to 4 decimals.
C7_NullRenderedNA ==
    /\ LastOut # "Traceback: TypeError"
    /\ \A i \in 1..Len(outfile.lines) :
          outfile.lines[i].kind = "row" =>
              LET src == SourceVals(outfile.lines[i].grp_id)
                  cells == outfile.lines[i].cells
              IN  /\ Len(cells) = Len(src)
                  /\ \A j \in 1..Len(src) :
                        IF src[j] = NULL
                        THEN cells[j].text = "NA"
                        ELSE cells[j].text = "num" /\ cells[j].v = Round4(src[j])
    /\ QuerySucceeded => Qualifying \subseteq EmittedIds

\* A written row with a null cell, rendered as NA, next to numeric cells.
C7_NAWritten ==
    \E i \in 1..Len(outfile.lines) :
        /\ outfile.lines[i].kind = "row"
        /\ \E j, k \in 1..Len(outfile.lines[i].cells) :
              /\ SourceVals(outfile.lines[i].grp_id)[j] = NULL
              /\ outfile.lines[i].cells[j].text = "NA"
              /\ outfile.lines[i].cells[k].text = "num"

\* C8: the Z/M-score script accepts every cutoff >= 0, exactly 0 included, and
\* rejects only a cutoff < 0; a configuration error is raised before the
\* database is opened and before an output file is created.
C8_NonNegativeAccepted ==
    (prog = "mzscore" /\ pc # "start") =>
        /\ (argv.dbfile_ok /\ argv.c >= 0) => exit_code # 2
        /\ argv.c < 0 => exit_code = 2
        /\ exit_code = 2 => db = NoDb /\ ~outfile.exists

\* A column of the view by its name, for a group of the view.
Channel(id, e, kind, r) == Chan(db, id, <<e, kind, r>>)

\* C9: for every group, experiment, ratio type and score kind of the view the
\* inverse-direction channel is exactly the negation of the forward-direction
\* channel, also after the rounding to 4 decimals, and is null exactly when
\* the forward channel is null.
C9_InverseIsNegation ==
    db.has_view =>
        \A id \in SeqRange(ViewIds(db)), e \in db.exp_names, r \in db.ratio_types,
           kind \in {"z", "m"} :
            LET fwd == Channel(id, e, kind, r)
                inv == Channel(id, e, kind, InverseType(r))
            IN  /\ (inv = NULL) <=> (fwd = NULL)
                /\ fwd # NULL => inv = 0 - fwd

\* A view with a channel that was rounded and is not zero, and a null channel.
C9_RoundedChannel ==
    /\ db.has_view
    /\ \E x \in SeqRange(db.mzscore) :
          /\ x.z_score # NULL /\ x.z_score % 10 # 0
          /\ Channel(x.grp_id, x.exp_name, "z", x.ratio_type) = Round4(x.z_score)
          /\ Channel(x.grp_id, x.exp_name, "z", InverseType(x.ratio_type)) = 0 - Round4(x.z_score)
          /\ Round4(x.z_score) # 0
    /\ \E id \in SeqRange(ViewIds(db)), e \in db.exp_names, r \in db.ratio_types :
          Channel(id, e, "m", InverseType(r)) = NULL

\* The block under the option -n was executed for a dataset of the database.
BuilderRan ==
    /\ prog = "mzscore" /\ args.new_tabs /\ args.dts \in db.dsets
    /\ pc \in {"open", "query", "write", "exit"}

\* C10: after the option -n, for both experiments and the three ratio pairs of
\* the selected family, the forward and inverse Z and M columns exist in the
\* view whichever ratio types have measurements, and the query does not fail
\* on a missing column.
C10_EveryChannelExists ==
    BuilderRan =>
        /\ db.has_view
        /\ \A e \in Exps, p \in BasePairs, kind \in {"z", "m"} :
              LET fam == score_types[args.stype][2]
              IN  {<<ExpName(args.dts, e), kind, <<fam, p[1], p[2]>>>>,
                   <<ExpName(args.dts, e), kind, <<fam, p[2], p[1]>>>>}
                      \subseteq {c.name : c \in db.view}
        /\ ~QueryFailed

\* The measurements of a bucket that have a strictly positive ratio.
PositiveRows(e, t) ==
    SelectSeq(db.quant, LAMBDA q : /\ q.exp_name = e /\ q.quant_type = t
                                   /\ q.quant_value # NULL /\ q.quant_value > 0)

\* C11: for every (experiment, ratio type) bucket, the values handed to the
\* aggregates are the log2 of the strictly positive ratios only: an absent,
\* zero or negative ratio is excluded, no null is appended by a step method and
\* n counts the aggregated values.
C11_OnlyPositiveAggregated ==
    \A b \in db.steps :
        /\ \A i \in 1..Len(b.vec) : b.vec[i] # NULL
        /\ Len(b.vec) = Len(PositiveRows(b.exp_name, b.ratio_type))
        /\ b.n = Len(PositiveRows(b.exp_name, b.ratio_type))

\* The gene column of the protein rows joined to a group, and its gene symbols.
JoinedGenes(id) == IF prog = "fcsigB" THEN FcGroupOf(id).genes ELSE GenesOf(db, id)
Symbols(id) == {x \in SeqRange(JoinedGenes(id)) : x # NullGene}

\* The result lines of the output file.
RowLines == {i \in 1..Len(outfile.lines) : outfile.lines[i].kind = "row"}

\* C12: results are grouped by group id: however many protein rows join to a
\* group, the output has at most one line per group id, its gene cell lists
\* the gene symbols of the group without duplicates, and a group with no gene
\* symbol shows the placeholder "-", never an empty cell.
C12_OneLinePerGroup ==
    /\ \A i, j \in RowLines :
          outfile.lines[i].grp_id = outfile.lines[j].grp_id => i = j
    /\ \A i \in RowLines :
          LET cell == outfile.lines[i].genes
              syms == Symbols(outfile.lines[i].grp_id)
          IN  /\ cell # <<>>
              /\ IF syms = {} THEN cell = <<"-">>
                 ELSE SeqRange(cell) = syms /\ Len(cell) = Cardinality(syms)

\* An output with two lines: one of a group joined to three protein rows with
\* two distinct gene symbols, one of a group without gene symbol.
C12_MergedAndPlaceholder ==
    \E i, j \in RowLines :
        /\ Len(JoinedGenes(outfile.lines[i].grp_id)) = 3
        /\ Len(outfile.lines[i].genes) = 2
        /\ Symbols(outfile.lines[j].grp_id) = {}
        /\ outfile.lines[j].genes = <<"-">>
=============================================================================
